---------------------------- MODULE Spec2Model ----------------------------
(***************************************************************************)
(* Listener handover of the registry facade                                *)
(* (components/registry-facade/pkg/registry/registry.go).                  *)
(*                                                                         *)
(* Every process of Procs runs Registry.Serve once.  The processes share   *)
(* the file system (the directories the handover sockets live in), the     *)
(* clock and the TCP ports of the host.  Package handover (the FD passing  *)
(* over the Unix socket) is not part of the sources at hand; its two       *)
(* entry points are modelled after section 4.J of the specification.       *)
(* A recipient that is not one of Procs (any program that speaks the       *)
(* protocol of 4.J on the donor's socket) is the peer.  The debug service  *)
(* of REGFAC_NO_TLS_DEBUG (line 226) has a server and a listener of its    *)
(* own and takes no part in the handover; it is left out.                  *)
(*                                                                         *)
(* Besides Spec and FairSpec (the processes running Serve) the module      *)
(* holds a specification for each function examined by itself:             *)
(* OfferSpec (OfferHandover), ReceiveSpec (ReceiveHandover), HTTPSpec (the *)
(* handler of the server), NameSpec (getSpecProviderName), NewSpec         *)
(* (NewRegistry and the files opened) and RunSpec (the entry of the        *)
(* supervisor, components/supervisor/pkg/supervisor/supervisor.go).  In    *)
(* these call holds the arguments and result what the function did.        *)
(* SupSpec and FairSupSpec are the goroutines of a running supervisor:     *)
(* Run from its select on, the reaper, startAndWatchIDE with its launch    *)
(* and probe goroutines, and the workers of the wait group.                *)
(***************************************************************************)
EXTENDS Integers, Sequences, FiniteSets, TLC

VARIABLES
    cfg,        \* reg.Config of each process (Port, TLS, Handover.*)
    pc,         \* position of each process in Registry.Serve
    l,          \* Serve's local l: the TCP socket the listener refers to
    lopen,      \* whether the process still holds its descriptor of l open
    ret,        \* what Serve returned
    recvRes,    \* outcome of ReceiveHandover at line 236
    bindRes,    \* outcome of net.Listen at line 244
    fs,         \* the entries os.ReadDir returned to ReceiveHandover
    fn,         \* ReceiveHandover's fn after its loop
    srv,        \* state of reg.srv, the http.Server
    srvErrChan, \* the buffered channel of line 277
    hoc,        \* the channel OfferHandover returned (handingOverC)
    gor,        \* position of the goroutine OfferHandover started
    socketFN,   \* the socket file name OfferHandover computed
    offerRes,   \* what handover.OfferHandover returned to the goroutine
    dirs,       \* the entries of each directory
    now,        \* time.Now().Unix()
    peer,       \* TCP sockets an outside recipient received and accepts on
    call,       \* the function examined by itself and its arguments
    result,     \* what that function did and returned
    sup         \* the supervisor process while Run tears down (see SupSpec)

vars == <<cfg, pc, l, lopen, ret, recvRes, bindRes, fs, fn, srv, srvErrChan,
          hoc, gor, socketFN, offerRes, dirs, now, peer, call, result, sup>>

---------------------------------------------------------------------------
(* Bounds of the model. *)

\* The clock stops advancing here.
MaxTime == 10

\* The second the first process can start in: the last one-digit second,
\* so that the clock crosses a change of the number of digits.
FirstTimes == {MaxTime - 1}

Procs == {"p1", "p2"}

None == "none"

---------------------------------------------------------------------------
(* Strings are sequences of byte values; Go compares them byte-wise. *)

Min(a, b) == IF a < b THEN a ELSE b

\* a < b for Go strings.
StrLess(a, b) ==
    LET n    == Min(Len(a), Len(b))
        diff == {i \in 1..n : a[i] # b[i]}
    IN  IF diff = {}
        THEN Len(a) < Len(b)
        ELSE LET i == CHOOSE j \in diff : \A k \in diff : j <= k
             IN  a[i] < b[i]

\* fmt's %d of a non-negative integer: decimal, no padding.
RECURSIVE Itoa(_)
Itoa(n) == IF n < 10 THEN <<48 + n>> ELSE Itoa(n \div 10) \o <<48 + (n % 10)>>

\* "rf-handover-" and ".sock"
HandoverPrefix == <<114, 102, 45, 104, 97, 110, 100, 111, 118, 101, 114, 45>>
HandoverSuffix == <<46, 115, 111, 99, 107>>

\* fmt.Sprintf("rf-handover-%d.sock", t), line 339
SocketName(t) == HandoverPrefix \o Itoa(t) \o HandoverSuffix

---------------------------------------------------------------------------
(* os.FileMode is a uint32.  A value is written as its four bytes, least   *)
(* significant first, so that products wrap at 2^32 as they do in Go.       *)

\* The type bits of package os: ModeDir = 1<<31, ModeSymlink = 1<<27,
\* ModeDevice = 1<<26, ModeNamedPipe = 1<<25, ModeSocket = 1<<24,
\* ModeCharDevice = 1<<21, ModeIrregular = 1<<19; a regular file has none.
ModeRegular    == <<0, 0, 0, 0>>
ModeDir        == <<0, 0, 0, 128>>
ModeSymlink    == <<0, 0, 0, 8>>
ModeDevice     == <<0, 0, 0, 4>>
ModeNamedPipe  == <<0, 0, 0, 2>>
ModeSocket     == <<0, 0, 0, 1>>
ModeCharDevice == <<0, 0, 32, 0>>
ModeIrregular  == <<0, 0, 8, 0>>

\* What DirEntry.Type() can return for a file that is no socket; a
\* character device has ModeDevice and ModeCharDevice set.
OtherFileTypes == <<ModeRegular, ModeDir, ModeSymlink, ModeDevice, ModeNamedPipe,
                    <<0, 0, 32, 4>>, ModeIrregular>>

\* a * b in uint32: the product modulo 2^32.
Mul32(a, b) ==
    LET c0 == a[1] * b[1]
        c1 == a[1] * b[2] + a[2] * b[1] + (c0 \div 256)
        c2 == a[1] * b[3] + a[2] * b[2] + a[3] * b[1] + (c1 \div 256)
        c3 == a[1] * b[4] + a[2] * b[3] + a[3] * b[2] + a[4] * b[1] + (c2 \div 256)
    IN  <<c0 % 256, c1 % 256, c2 % 256, c3 % 256>>

\* The test of line 316, f.Type()*os.ModeSocket == 0: TRUE means the entry
\* is skipped.
SkipEntry(type) == Mul32(type, ModeSocket) = <<0, 0, 0, 0>>

\* The loop of lines 315-322 over the entries not yet visited.
RECURSIVE ScanEntries(_, _)
ScanEntries(todo, best) ==
    IF todo = {} THEN best
    ELSE LET f == CHOOSE e \in todo : TRUE
         IN  ScanEntries(todo \ {f},
                 IF SkipEntry(f.type) THEN best
                 ELSE IF StrLess(best, f.name) THEN f.name ELSE best)

---------------------------------------------------------------------------
(* Configuration. *)

Ports == {5000, 5001}

\* filepath.Join(loc, name): an empty loc names the working directory.
Locs == {"", "/handover"}

\* The configurations a process can start with.  With the handover disabled
\* the directory is not looked at, so one directory stands for all, and the
\* ports are interchangeable: the first process has the first port.
Configs(p) ==
    {c \in [port : Ports, tls : BOOLEAN, enabled : BOOLEAN, sockets : Locs] :
        /\ ~c.enabled => c.sockets = "/handover"
        /\ p = "p1" => c.port = 5000}

\* Entries found in the handover directory before any process starts: one
\* of every type but the socket, named zz1, zz2, ..., which sort after every
\* socket name.
ForeignEntries ==
    {[name |-> <<122, 122, 48 + i>>, type |-> OtherFileTypes[i]] :
        i \in 1..Len(OtherFileTypes)}

\* No process has started Serve.
Unstarted ==
    /\ cfg = [p \in Procs |-> [port |-> 5000, tls |-> FALSE, enabled |-> FALSE,
                               sockets |-> ""]]
    /\ pc = [p \in Procs |-> "idle"]
    /\ l = [p \in Procs |-> None]
    /\ lopen = [p \in Procs |-> FALSE]
    /\ ret = [p \in Procs |-> None]
    /\ recvRes = [p \in Procs |-> None]
    /\ bindRes = [p \in Procs |-> None]
    /\ fs = [p \in Procs |-> {}]
    /\ fn = [p \in Procs |-> <<>>]
    /\ srv = [p \in Procs |-> "new"]
    /\ srvErrChan = [p \in Procs |-> "empty"]
    /\ hoc = [p \in Procs |-> "nil"]
    /\ gor = [p \in Procs |-> None]
    /\ socketFN = [p \in Procs |-> <<>>]
    /\ offerRes = [p \in Procs |-> None]
    /\ peer = {}

\* No function is examined by itself.
NoCall ==
    /\ call = [fn |-> "none"]
    /\ result = [done |-> FALSE]

\* No supervisor runs.
NoSupervisor == sup = [alive |-> FALSE]

Init ==
    /\ Unstarted
    /\ dirs = [d \in Locs |-> IF d = "" THEN {} ELSE ForeignEntries]
    /\ now \in FirstTimes
    /\ NoCall
    /\ NoSupervisor

---------------------------------------------------------------------------
(* The host: processes, TCP sockets, ports. *)

\* A process between the start of Serve and its exit.
Alive(p) == pc[p] \notin {"idle", "exited"}

\* A TCP listening socket is named after the process that bound it; it lives
\* as long as some descriptor of it is open.
SockAlive(s) == s \in peer \/ \E q \in Procs : l[q] = s /\ lopen[q]

\* net.Listen("tcp", addr) fails while a socket listens on the port.
PortInUse(port) == \E s \in Procs : SockAlive(s) /\ cfg[s].port = port

\* The http.Server accepts connections on its listener.
Accepting(p) == srv[p] = "serving" /\ Alive(p)

\* The process listens on its handover socket for a recipient.
Offering(p) == gor[p] = "offering" /\ Alive(p)

SocketEntry(name) == [name |-> name, type |-> ModeSocket]

---------------------------------------------------------------------------
(* registry.ReceiveHandover, lines 306-330.  readOk: os.ReadDir succeeds;   *)
(* connOk: handover.ReceiveHandover obtains the listener from the donor     *)
(* that listens on the chosen socket.  The result names the donor the       *)
(* listener came from, or None.                                             *)

ReceiveHandover(p, loc, readOk, connOk) ==
    IF loc = "" THEN [res |-> "nil", fs |-> {}, fn |-> <<>>, donor |-> None]
    ELSE IF ~readOk THEN [res |-> "err", fs |-> {}, fn |-> <<>>, donor |-> None]
    ELSE LET name   == ScanEntries(dirs[loc], <<>>)
             donors == {d \in Procs \ {p} :
                           /\ Offering(d)
                           /\ cfg[d].sockets = loc
                           /\ socketFN[d] = name}
         IN  IF name = <<>>
             THEN [res |-> "nil", fs |-> dirs[loc], fn |-> name, donor |-> None]
             ELSE IF connOk /\ donors # {}
             THEN [res |-> "ok", fs |-> dirs[loc], fn |-> name,
                   donor |-> CHOOSE d \in donors : TRUE]
             ELSE [res |-> "err", fs |-> dirs[loc], fn |-> name, donor |-> None]

\* A Serve that looks for a donor wherever a directory is configured.
HasSockets(c) == c.sockets # ""

\* Serve's condition of line 234.
WantsHandover(c) == c.enabled /\ c.sockets # ""

\* A Serve that gives up on a failed handover instead of binding.
NeedsOwnListenerUnlessFailed(p) == l[p] = None /\ recvRes[p] # "err"

\* Serve's condition of line 242.
NeedsOwnListener(p) == l[p] = None

\* Lines 208-233: the process starts Serve with its configuration.  The
\* processes are alike: the first to start is called p1.
Start(p) ==
    /\ pc[p] = "idle"
    /\ p = "p1" \/ pc["p1"] # "idle"
    /\ \E c \in Configs(p) :
         /\ cfg' = [cfg EXCEPT ![p] = c]
         /\ pc' = [pc EXCEPT ![p] = IF WantsHandover(c) THEN "receive" ELSE "listen"]
    /\ UNCHANGED <<l, lopen, ret, recvRes, bindRes, fs, fn, srv, srvErrChan,
                   hoc, gor, socketFN, offerRes, dirs, now, peer,
                   call, result, sup>>

\* Lines 234-241: the attempt to receive the listener.  A donor that handed
\* its listener over has handover.OfferHandover return nil and its socket
\* file removed.
ReceiveStep(p) ==
    /\ pc[p] = "receive"
    /\ \E readOk \in BOOLEAN, connOk \in BOOLEAN :
         LET r == ReceiveHandover(p, cfg[p].sockets, readOk, connOk)
             d == r.donor
         IN  /\ recvRes' = [recvRes EXCEPT ![p] = r.res]
             /\ fs' = [fs EXCEPT ![p] = r.fs]
             /\ fn' = [fn EXCEPT ![p] = r.fn]
             /\ l' = [l EXCEPT ![p] = IF d = None THEN None ELSE l[d]]
             /\ lopen' = [lopen EXCEPT ![p] = d # None]
             /\ gor' = [q \in Procs |-> IF q = d THEN "send" ELSE gor[q]]
             /\ offerRes' = [q \in Procs |-> IF q = d THEN "ok" ELSE offerRes[q]]
             /\ dirs' = IF d = None THEN dirs
                        ELSE [dirs EXCEPT ![cfg[d].sockets] = @ \ {SocketEntry(socketFN[d])}]
    /\ pc' = [pc EXCEPT ![p] = "listen"]
    /\ UNCHANGED <<cfg, ret, bindRes, srv, srvErrChan, hoc, socketFN, now, peer,
                   call, result, sup>>

\* Lines 242-248: without a listener, bind one.
ListenStep(p) ==
    /\ pc[p] = "listen"
    /\ IF ~NeedsOwnListener(p)
       THEN /\ pc' = [pc EXCEPT ![p] = "offer"]
            /\ UNCHANGED <<l, lopen, ret, bindRes>>
       ELSE IF PortInUse(cfg[p].port)
       THEN /\ bindRes' = [bindRes EXCEPT ![p] = "fail"]
            /\ ret' = [ret EXCEPT ![p] = "err"]
            /\ pc' = [pc EXCEPT ![p] = "returned"]
            /\ UNCHANGED <<l, lopen>>
       ELSE /\ bindRes' = [bindRes EXCEPT ![p] = "ok"]
            /\ l' = [l EXCEPT ![p] = p]
            /\ lopen' = [lopen EXCEPT ![p] = TRUE]
            /\ pc' = [pc EXCEPT ![p] = "offer"]
            /\ UNCHANGED ret
    /\ UNCHANGED <<cfg, recvRes, fs, fn, srv, srvErrChan, hoc, gor, socketFN,
                   offerRes, dirs, now, peer,
                   call, result, sup>>

\* Lines 255-281.  With the handover enabled OfferHandover, lines 338-348
\* and 371-372, computes the socket name and starts its goroutine:
\* filepath.Join of a file name is never empty and l is a *net.TCPListener.
\* Then ServeTLS in the calling goroutine (certOk: the key pair loads), or
\* Serve in a goroutine of its own and on to the select.
ServeStep(p) ==
    /\ pc[p] = "offer"
    /\ IF cfg[p].enabled
       THEN /\ socketFN' = [socketFN EXCEPT ![p] = SocketName(now)]
            /\ hoc' = [hoc EXCEPT ![p] = "open"]
            /\ gor' = [gor EXCEPT ![p] = "listen"]
       ELSE UNCHANGED <<socketFN, hoc, gor>>
    /\ \E certOk \in BOOLEAN :
         IF cfg[p].tls /\ ~certOk
         THEN /\ ret' = [ret EXCEPT ![p] = "err"]
              /\ pc' = [pc EXCEPT ![p] = "returned"]
              /\ UNCHANGED srv
         ELSE /\ srv' = [srv EXCEPT ![p] = "serving"]
              /\ pc' = [pc EXCEPT ![p] = IF cfg[p].tls THEN "tls" ELSE "select"]
              /\ UNCHANGED ret
    /\ UNCHANGED <<cfg, l, lopen, recvRes, bindRes, fs, fn, srvErrChan, offerRes,
                   dirs, now, peer,
                   call, result, sup>>

---------------------------------------------------------------------------
(* The goroutine of OfferHandover, lines 349-370, and handover.OfferHandover *)
(* as section 4.J describes it: listen on the socket file, hand a duplicate  *)
(* of the listener's descriptor to the recipient that connects, remove the   *)
(* socket file.                                                              *)

\* The donor's side of a completed transfer: handover.OfferHandover returns
\* nil (line 352) and the goroutine stands before the send of line 359.
HandedOver(d) ==
    /\ gor' = [gor EXCEPT ![d] = "send"]
    /\ offerRes' = [offerRes EXCEPT ![d] = "ok"]
    /\ dirs' = [dirs EXCEPT ![cfg[d].sockets] = @ \ {SocketEntry(socketFN[d])}]

\* The error return of lines 353-356 with the deferred close of line 350.
OfferFailed(p) ==
    /\ gor' = [gor EXCEPT ![p] = "done"]
    /\ offerRes' = [offerRes EXCEPT ![p] = "err"]
    /\ hoc' = [hoc EXCEPT ![p] = "closed"]

\* handover.OfferHandover creates its socket; it cannot where a file of that
\* name exists (listenOk: nothing else fails).
OfferListen(p) ==
    /\ gor[p] = "listen"
    /\ Alive(p)
    /\ \E listenOk \in BOOLEAN :
         IF listenOk /\ \A e \in dirs[cfg[p].sockets] : e.name # socketFN[p]
         THEN /\ gor' = [gor EXCEPT ![p] = "offering"]
              /\ dirs' = [dirs EXCEPT ![cfg[p].sockets] = @ \cup {SocketEntry(socketFN[p])}]
              /\ UNCHANGED <<offerRes, hoc>>
         ELSE /\ OfferFailed(p)
              /\ UNCHANGED dirs
    /\ UNCHANGED <<cfg, pc, l, lopen, ret, recvRes, bindRes, fs, fn, srv,
                   srvErrChan, socketFN, now, peer,
                   call, result, sup>>

\* handover.OfferHandover fails while it waits for a recipient or serves
\* one (a timeout, the cancelled context, a failed write).
OfferFail(p) ==
    /\ Offering(p)
    /\ OfferFailed(p)
    /\ dirs' = [dirs EXCEPT ![cfg[p].sockets] = @ \ {SocketEntry(socketFN[p])}]
    /\ UNCHANGED <<cfg, pc, l, lopen, ret, recvRes, bindRes, fs, fn, srv,
                   srvErrChan, socketFN, now, peer,
                   call, result, sup>>

\* A recipient outside Procs connects to the donor's socket, receives the
\* descriptor and begins to accept on it (4.J, steps 1-4).
PeerReceive(d) ==
    /\ Offering(d)
    /\ peer' = peer \cup {l[d]}
    /\ HandedOver(d)
    /\ UNCHANGED <<cfg, pc, l, lopen, ret, recvRes, bindRes, fs, fn, srv,
                   srvErrChan, hoc, socketFN, now,
                   call, result, sup>>

\* Line 359 meets line 286: the unbuffered send needs Serve in its select.
SendTrue(p) ==
    /\ gor[p] = "send"
    /\ pc[p] = "select"
    /\ gor' = [gor EXCEPT ![p] = "shutdown"]
    /\ pc' = [pc EXCEPT ![p] = "wait"]
    /\ UNCHANGED <<cfg, l, lopen, ret, recvRes, bindRes, fs, fn, srv, srvErrChan,
                   hoc, socketFN, offerRes, dirs, now, peer,
                   call, result, sup>>

\* Line 364: Shutdown closes the server's listener and waits for the
\* connections in flight.
CallShutdown(p) ==
    /\ gor[p] = "shutdown"
    /\ Alive(p)
    /\ gor' = [gor EXCEPT ![p] = "inShutdown"]
    /\ srv' = [srv EXCEPT ![p] = "shutting"]
    /\ lopen' = [lopen EXCEPT ![p] = FALSE]
    /\ UNCHANGED <<cfg, pc, l, ret, recvRes, bindRes, fs, fn, srvErrChan, hoc,
                   socketFN, offerRes, dirs, now, peer,
                   call, result, sup>>

\* Lines 365-370: Shutdown returns, the goroutine ends and closes the channel.
ShutdownReturns(p) ==
    /\ gor[p] = "inShutdown"
    /\ Alive(p)
    /\ gor' = [gor EXCEPT ![p] = "done"]
    /\ srv' = [srv EXCEPT ![p] = "closed"]
    /\ hoc' = [hoc EXCEPT ![p] = "closed"]
    /\ UNCHANGED <<cfg, pc, l, lopen, ret, recvRes, bindRes, fs, fn, srvErrChan,
                   socketFN, offerRes, dirs, now, peer,
                   call, result, sup>>

---------------------------------------------------------------------------
(* The http.Server and the end of Serve. *)

\* The server's Serve ends with an error of its own (Accept failed); it
\* closes the listener and, in the goroutine of line 278, sends the error.
SrvFail(p) ==
    /\ Accepting(p)
    /\ srv' = [srv EXCEPT ![p] = "failed"]
    /\ lopen' = [lopen EXCEPT ![p] = FALSE]
    /\ srvErrChan' = [srvErrChan EXCEPT ![p] = IF cfg[p].tls THEN @ ELSE "err"]
    /\ UNCHANGED <<cfg, pc, l, ret, recvRes, bindRes, fs, fn, hoc, gor, socketFN,
                   offerRes, dirs, now, peer,
                   call, result, sup>>

Returns(p, value) ==
    /\ ret' = [ret EXCEPT ![p] = value]
    /\ pc' = [pc EXCEPT ![p] = "returned"]
    /\ UNCHANGED <<cfg, l, lopen, recvRes, bindRes, fs, fn, srv, srvErrChan, hoc,
                   gor, socketFN, offerRes, dirs, now, peer,
                   call, result, sup>>

\* Line 274: ServeTLS returns once the server no longer serves.
TLSReturn(p) ==
    /\ pc[p] = "tls"
    /\ srv[p] # "serving"
    /\ Returns(p, "err")

\* Lines 284-285.
SelectSrvErr(p) ==
    /\ pc[p] = "select"
    /\ srvErrChan[p] = "err"
    /\ Returns(p, "err")

\* Lines 286-289: the receive from the closed channel yields false.
SelectClosed(p) ==
    /\ pc[p] = "select"
    /\ hoc[p] = "closed"
    /\ Returns(p, "nil")

\* A Serve that does not wait for the second receive.
DrainNotAwaited(p) == hoc[p] # "nil"

\* Line 291: the second receive ends when the goroutine closes the channel.
DrainAwaited(p) == hoc[p] = "closed"

\* Lines 291-292.
WaitClosed(p) ==
    /\ pc[p] = "wait"
    /\ DrainAwaited(p)
    /\ Returns(p, "nil")

\* MustServe, lines 297-302, and the end of the process: every descriptor
\* is closed, the socket file of a pending offer stays behind.
Exit(p) ==
    /\ pc[p] = "returned"
    /\ pc' = [pc EXCEPT ![p] = "exited"]
    /\ lopen' = [lopen EXCEPT ![p] = FALSE]
    /\ UNCHANGED <<cfg, l, ret, recvRes, bindRes, fs, fn, srv, srvErrChan, hoc,
                   gor, socketFN, offerRes, dirs, now, peer,
                   call, result, sup>>

\* A second passes.
Tick ==
    /\ now < MaxTime
    /\ now' = now + 1
    /\ UNCHANGED <<cfg, pc, l, lopen, ret, recvRes, bindRes, fs, fn, srv,
                   srvErrChan, hoc, gor, socketFN, offerRes, dirs, peer,
                   call, result, sup>>

---------------------------------------------------------------------------

\* The steps the process takes by itself once they are enabled.
Step(p) ==
    \/ ReceiveStep(p)
    \/ ListenStep(p)
    \/ ServeStep(p)
    \/ OfferListen(p)
    \/ SendTrue(p)
    \/ CallShutdown(p)
    \/ ShutdownReturns(p)
    \/ TLSReturn(p)
    \/ SelectSrvErr(p)
    \/ SelectClosed(p)
    \/ WaitClosed(p)
    \/ Exit(p)

\* What happens to it: its start, failures, a recipient from outside.
Environment(p) ==
    \/ Start(p)
    \/ OfferFail(p)
    \/ PeerReceive(p)
    \/ SrvFail(p)

Next == Tick \/ \E p \in Procs : Step(p) \/ Environment(p)

Spec == Init /\ [][Next]_vars

\* The Go scheduler runs every goroutine that can run; Shutdown returns
\* because the requests in flight end.
FairSpec == Spec /\ \A p \in Procs : WF_vars(Step(p))

---------------------------------------------------------------------------
(* Properties. *)

\* Shutdown was called on reg.srv.
ShutdownCalled(p) == srv[p] \in {"shutting", "closed"}

\* The names of the socket entries of a directory listing.
SocketNames(entries) == {e.name : e \in {x \in entries : x.type = ModeSocket}}

\* The lexicographically greatest of a non-empty set of names.
Greatest(names) == CHOOSE n \in names : \A m \in names : ~StrLess(n, m)

C2_DonorResumesOnFailedOffer ==
    \A p \in Procs :
        offerRes[p] = "err" =>
            /\ ~ShutdownCalled(p)
            /\ srv[p] = "serving" => ret[p] = None

(* C3: Donor drain is initiated.  After the offer has succeeded while the   *)
(* server serves, Shutdown is eventually called on the server (or the       *)
(* server has failed by itself), in the HTTP and in the HTTPS mode.         *)
C3_DonorDrainInitiated ==
    \A p \in Procs :
        (offerRes[p] = "ok" /\ srv[p] = "serving")
            ~> (ShutdownCalled(p) \/ srv[p] = "failed")

C5_NoSimultaneousAccept ==
    \A d \in Procs :
        Accepting(d) =>
            /\ l[d] \notin peer
            /\ \A r \in Procs \ {d} : ~(Accepting(r) /\ l[r] = l[d])

(* C6: No refused connections.  The socket a server has served on (and has  *)
(* not lost to a failure of its own) stays open in some process, and the    *)
(* server is shut down only after handover.OfferHandover returned nil.      *)
C6_SocketStaysOpen ==
    \A p \in Procs :
        /\ srv[p] \notin {"new", "failed"} => SockAlive(l[p])
        /\ ShutdownCalled(p) => offerRes[p] = "ok"

(* C7: Recipient picks the latest donor.  After ReceiveHandover has read a  *)
(* directory with at least one socket entry, the socket it attempts the     *)
(* handover from is the one with the greatest name.                         *)
C7_PicksGreatestSocket ==
    \A p \in Procs :
        SocketNames(fs[p]) # {} => fn[p] = Greatest(SocketNames(fs[p]))

(* C8: Socket filter.  Of the entries ReceiveHandover has read, the test of *)
(* line 316 skips exactly those that are not sockets.                       *)
C8_FilterSkipsNonSockets ==
    \A p \in Procs :
        \A f \in fs[p] : SkipEntry(f.type) <=> f.type # ModeSocket

(* C9: Socket names order donors by start time.  Of two socket names built  *)
(* from the seconds t1 < t2, the one built from t2 is the greater.          *)
C9_NamesOrderDonors ==
    \A p, q \in Procs :
        \A t1, t2 \in 0..now :
            (socketFN[p] = SocketName(t1) /\ socketFN[q] = SocketName(t2) /\ t1 < t2)
                => StrLess(socketFN[p], socketFN[q])

(* C10: At most one active donor.  No two live processes offer a handover   *)
(* socket in the same directory at the same time.                           *)
C10_AtMostOneDonor ==
    \A p, q \in Procs :
        (p # q /\ Offering(p) /\ Offering(q) /\ cfg[p].sockets # "")
            => cfg[p].sockets # cfg[q].sockets


\* The process runs or ran Serve with the handover disabled.
Disabled(p) == pc[p] # "idle" /\ ~cfg[p].enabled

\* Nothing of the handover has happened in the process: no directory read,
\* no socket name, channel or goroutine, no Shutdown, no listener but its own.
Untouched(p) ==
    /\ recvRes[p] = None
    /\ fs[p] = {}
    /\ fn[p] = <<>>
    /\ socketFN[p] = <<>>
    /\ gor[p] = None
    /\ hoc[p] = "nil"
    /\ ~ShutdownCalled(p)
    /\ l[p] \in {None, p}

\* Serve's error is that of the server: Serve ended (line 280) or ServeTLS
\* (line 274), which can fail on the key pair before it serves.
ServerReturned(p) ==
    /\ bindRes[p] = "ok"
    /\ ret[p] = "err"
    /\ srv[p] = "failed" \/ (cfg[p].tls /\ srv[p] = "new")

(* C21, as stated: with the handover disabled Serve reads no handover       *)
(* directory, publishes no socket, never calls Shutdown, binds its own      *)
(* listener and returns only when the server's Serve returns, with the      *)
(* server's error.                                                          *)
C21_DisabledReturnsWithServer ==
    \A p \in Procs :
        Disabled(p) => Untouched(p) /\ (ret[p] # None => ServerReturned(p))

(* C21, amended: with the handover disabled Serve reads no handover         *)
(* directory, publishes no socket and never calls Shutdown; it returns the  *)
(* error of net.Listen when it cannot bind, and otherwise binds its own     *)
(* listener and returns only when the server's Serve returns, with the      *)
(* server's error.                                                          *)
C21_DisabledUntouched ==
    \A p \in Procs :
        Disabled(p) =>
            /\ Untouched(p)
            /\ ret[p] # None =>
                  \/ bindRes[p] = "fail" /\ ret[p] = "err" /\ srv[p] = "new"
                  \/ ServerReturned(p)

\* A process with the handover disabled and a directory configured served
\* on its own listener and returned the server's error.
C21_Witness ==
    \E p \in Procs :
        /\ Disabled(p)
        /\ cfg[p].sockets # ""
        /\ l[p] = p
        /\ srv[p] = "failed"
        /\ ret[p] = "err"

(* C23: with the handover enabled and handover.sockets empty Serve neither  *)
(* attempts to receive a handover nor offers one: OfferHandover returns a   *)
(* nil channel and publishes no socket file.                                *)
C23_NoDirectoryNoHandover ==
    \A p \in Procs :
        (pc[p] # "idle" /\ cfg[p].enabled /\ cfg[p].sockets = "") =>
            /\ recvRes[p] = None
            /\ hoc[p] = "nil"
            /\ gor[p] = None
            /\ SocketNames(dirs[""]) = {}

---------------------------------------------------------------------------
(* Functions examined by themselves: the arguments are drawn at the start, *)
(* the actions apply the function, no process runs Serve.                  *)

\* What the processes and the host consist of, and the supervisor.
host == <<cfg, pc, l, lopen, ret, recvRes, bindRes, fs, fn, srv, srvErrChan,
          hoc, gor, socketFN, offerRes, dirs, now, peer, sup>>

---------------------------------------------------------------------------
(* registry.OfferHandover, lines 338-373, called by Serve (lines 255-263,  *)
(* with reg.srv) or by another caller (with any Shutdowner or none).       *)

\* The dynamic types a net.Listener can have.
ListenerKinds == {"*net.TCPListener", "*net.UnixListener"}

\* An OfferHandover that offers whatever listener it is given.
IsListener(kind) == kind \in ListenerKinds

\* The type assertion of line 343.
IsTCPListener(kind) == kind = "*net.TCPListener"

\* filepath.Join drops empty elements: the result is empty only if all are.
JoinIsEmpty(loc, name) == loc = "" /\ name = <<>>

OfferCalls ==
    {c \in [fn : {"OfferHandover"}, from : {"Serve", "other"}, loc : Locs,
            l : ListenerKinds, s : {"nil", "srv"}] :
        c.from = "Serve" => c.s = "srv"}

\* Lines 338-348 and 371-372: the error, the channel and the goroutine.
OfferHandover(loc, kind, t) ==
    IF JoinIsEmpty(loc, SocketName(t))
    THEN [err |-> FALSE, chan |-> "nil", gor |-> None]
    ELSE IF ~IsTCPListener(kind)
    THEN [err |-> TRUE, chan |-> "nil", gor |-> None]
    ELSE [err |-> FALSE, chan |-> "open", gor |-> "offer"]

\* A goroutine without the deferred close.
NotClosed(events) == events

\* The deferred close of line 350, when the goroutine ends.
Closed(events) == Append(events, "close")

OfferInit ==
    /\ Unstarted
    /\ NoSupervisor
    /\ dirs = [d \in Locs |-> {}]
    /\ now \in 0..MaxTime
    /\ call \in OfferCalls
    /\ result = [done |-> FALSE, err |-> FALSE, chan |-> "nil", gor |-> None,
                 shutdown |-> FALSE, ret |-> None, serving |-> FALSE,
                 events |-> <<>>]

\* The call returns.  Serve returns the error (lines 260-262) or goes on to
\* serve (lines 265-281).
OfferCall ==
    /\ ~result.done
    /\ LET r == OfferHandover(call.loc, call.l, now)
       IN  result' = [result EXCEPT !.done = TRUE, !.err = r.err,
                         !.chan = r.chan, !.gor = r.gor,
                         !.ret = IF call.from = "Serve" /\ r.err THEN "err" ELSE None,
                         !.serving = call.from = "Serve" /\ ~r.err]
    /\ UNCHANGED <<host, call>>

\* Lines 350-357: handover.OfferHandover returns to the goroutine.
OfferGoReturn ==
    /\ result.gor = "offer"
    /\ \E ok \in BOOLEAN :
         result' = IF ok THEN [result EXCEPT !.gor = "send",
                                             !.events = Append(@, "offered")]
                   ELSE [result EXCEPT !.gor = "done", !.chan = "closed",
                             !.events = Closed(Append(@, "offerFailed"))]
    /\ UNCHANGED <<host, call>>

\* Lines 359-362: the caller receives true; without a Shutdowner the
\* goroutine ends.
OfferGoSend ==
    /\ result.gor = "send"
    /\ result' = IF call.s = "nil"
                 THEN [result EXCEPT !.gor = "done", !.chan = "closed",
                                     !.events = Closed(Append(@, "send"))]
                 ELSE [result EXCEPT !.gor = "shutdown",
                                     !.events = Append(@, "send")]
    /\ UNCHANGED <<host, call>>

\* Lines 364-370: Shutdown is called and returns, with an error or without.
OfferGoShutdown ==
    /\ result.gor = "shutdown"
    /\ result' = [result EXCEPT !.gor = "done", !.chan = "closed",
                                !.shutdown = TRUE, !.serving = FALSE,
                                !.events = Closed(@ \o <<"Shutdown", "ShutdownReturned">>)]
    /\ UNCHANGED <<host, call>>

OfferNext == OfferCall \/ OfferGoReturn \/ OfferGoSend \/ OfferGoShutdown

OfferSpec == OfferInit /\ [][OfferNext]_vars

(* C11: OfferHandover called with a listener that is not a *net.TCPListener *)
(* returns an error and a nil channel, starts no goroutine and Shutdown is  *)
(* never called; Serve returns that error and does not serve.               *)
C11_OnlyTCPOffered ==
    (result.done /\ call.l # "*net.TCPListener") =>
        /\ result.err
        /\ result.chan = "nil"
        /\ result.gor = None
        /\ ~result.shutdown
        /\ call.from = "Serve" => result.ret = "err" /\ ~result.serving

\* Serve has its OfferHandover refuse a Unix listener.
C11_Witness ==
    /\ result.done
    /\ call.l = "*net.UnixListener"
    /\ call.from = "Serve"
    /\ result.ret = "err"


\* The places of an event in the history of the channel and the goroutine.
Places(events, e) == {i \in 1..Len(events) : events[i] = e}

---------------------------------------------------------------------------
(* Repository names, lines 489-507.  Strings are sequences of character    *)
(* codes; names are made of the letters a and b and the slash.             *)

MaxNameLen == 4

Slash == 47

NameChars == {97, 98, Slash}

Names == UNION {[1..n -> NameChars] : n \in 0..MaxNameLen}

\* The index of the first slash of s, 0 if there is none.
IndexSlash(s) ==
    IF \E i \in 1..Len(s) : s[i] = Slash
    THEN CHOOSE i \in 1..Len(s) : s[i] = Slash /\ \A j \in 1..(i - 1) : s[j] # Slash
    ELSE 0

\* strings.Split(s, "/").
RECURSIVE Split(_)
Split(s) ==
    LET i == IndexSlash(s)
    IN  IF i = 0 THEN <<s>>
        ELSE <<SubSeq(s, 1, i - 1)>> \o Split(SubSeq(s, i + 1, Len(s)))

\* A getSpecProviderName that keeps the last segment only.
JoinLast(segs) == IF segs = <<>> THEN <<>> ELSE segs[Len(segs)]

\* strings.Join(segs, "/").
RECURSIVE Join(_)
Join(segs) ==
    IF segs = <<>> THEN <<>>
    ELSE IF Len(segs) = 1 THEN segs[1]
    ELSE segs[1] \o <<Slash>> \o Join(Tail(segs))

\* Lines 499-507.
getSpecProviderName(name) ==
    LET segs == Split(name)
    IN  IF Len(segs) > 1
        THEN [specProviderName |-> segs[1], remainder |-> Join(Tail(segs))]
        ELSE [specProviderName |-> <<>>, remainder |-> <<>>]

NameInit ==
    /\ Unstarted
    /\ NoSupervisor
    /\ dirs = [d \in Locs |-> {}]
    /\ now = 0
    /\ call \in [fn : {"getSpecProviderName"}, name : Names]
    /\ result = [done |-> FALSE, specProviderName |-> <<>>, remainder |-> <<>>]

NameCall ==
    /\ ~result.done
    /\ LET r == getSpecProviderName(call.name)
       IN  result' = [done |-> TRUE, specProviderName |-> r.specProviderName,
                      remainder |-> r.remainder]
    /\ UNCHANGED <<host, call>>

NameSpec == NameInit /\ [][NameCall]_vars

(* C14: for a name with a slash getSpecProviderName returns the text before *)
(* the first slash and all the text after it, so that provider, slash and   *)
(* remainder make up the name; for a name without a slash both are empty.   *)
C14_SplitAtFirstSlash ==
    result.done =>
        LET name == call.name
            i    == IndexSlash(name)
        IN  IF i > 0
            THEN /\ result.specProviderName = SubSeq(name, 1, i - 1)
                 /\ result.remainder = SubSeq(name, i + 1, Len(name))
                 /\ result.specProviderName \o <<Slash>> \o result.remainder = name
            ELSE /\ result.specProviderName = <<>>
                 /\ result.remainder = <<>>

\* A name of three segments was split: a/b/ gives (a, b/).
C14_Witness ==
    /\ result.done
    /\ call.name = <<97, Slash, 98, Slash>>
    /\ result.specProviderName = <<97>>
    /\ result.remainder = <<98, Slash>>


---------------------------------------------------------------------------
(* The handler Serve installs, lines 209-217: the authentication gate of   *)
(* lines 375-392 around the routes of lines 395-404.  A request is known   *)
(* by the route of the router that matches its path, the name that route   *)
(* extracts, and its Authorization header.  handleManifest and handleBlob  *)
(* answer with a status of their own (hstatus).                            *)

\* The routes of distv2.RouterWithPrefix that matter: three have a handler
\* (lines 396-400), the others (tags here) have none (lines 398-402); a
\* path can match no route at all.
Routes == {"base", "manifest", "blob", "tags", "none"}

\* Authorization headers: none, Basic with base64 of user:password, Basic
\* with something that does not decode to user:password, another scheme.
AuthHeaders == {"absent", "basic", "basicMalformed", "bearer"}

\* A gate that asks for the header only.
HasAuthorization(auth) == auth # "absent"

\* r.BasicAuth() of line 382.
BasicAuthOk(auth) == auth = "basic"

\* reference.WithName of line 434 for the names at hand: segments of
\* letters with single slashes between them.
ValidName(name) == \A k \in 1..Len(Split(name)) : Split(name)[k] # <<>>

\* Lines 457-464; the routes the dispatcher is put on all need a name.
nameRequired(route) == route = "none" \/ route \notin {"base", "catalog"}

\* Nothing is written and nothing has run.
NoResponse ==
    [done |-> FALSE, status |-> 0, body |-> "", code |-> "", challenge |-> "",
     routed |-> FALSE, dispatched |-> FALSE, panic |-> FALSE]

\* Lines 408-415: 200 with an empty JSON object.
handleAPIBase(w) == [w EXCEPT !.status = 200, !.body = "{}"]

\* Lines 420-447.  reference.WithName returns a nil Named with its error,
\* and nameRef.Name() of line 438 on the nil interface panics before
\* respondWithError is entered: nothing is written, the server recovers
\* the panic and drops the connection.
dispatcher(w, route, name, hstatus) ==
    IF nameRequired(route) /\ ~ValidName(name)
    THEN [w EXCEPT !.panic = TRUE]
    ELSE [w EXCEPT !.dispatched = TRUE, !.status = hstatus, !.body = "handler"]

\* routes.ServeHTTP with the handlers of lines 395-404: a route without a
\* handler is answered by http.NotFoundHandler, a path without a route by
\* NotFoundHandler, which is handleAPIBase (line 403).
routesServeHTTP(w, route, name, hstatus) ==
    LET r == [w EXCEPT !.routed = TRUE]
    IN  CASE route = "base" -> handleAPIBase(r)
          [] route \in {"manifest", "blob"} -> dispatcher(r, route, name, hstatus)
          [] route = "tags" -> [r EXCEPT !.status = 404, !.body = "404 page not found"]
          [] route = "none" -> handleAPIBase(r)

\* Lines 375-392.
requireAuthentication(w, route, name, auth, hstatus) ==
    IF ~BasicAuthOk(auth)
    THEN [w EXCEPT !.status = 401, !.challenge = "Basic"]
    ELSE routesServeHTTP(w, route, name, hstatus)

\* Lines 212-215.
handler(w, c) ==
    IF c.requireAuth
    THEN requireAuthentication(w, c.route, c.name, c.auth, c.hstatus)
    ELSE routesServeHTTP(w, c.route, c.name, c.hstatus)

Requests ==
    {c \in [fn : {"ServeHTTP"}, requireAuth : BOOLEAN, route : Routes,
            name : Names, auth : AuthHeaders, hstatus : {200, 404}] :
        c.route \notin {"manifest", "blob"} => c.name = <<>>}

HTTPInit ==
    /\ Unstarted
    /\ NoSupervisor
    /\ dirs = [d \in Locs |-> {}]
    /\ now = 0
    /\ call \in Requests
    /\ result = NoResponse

ServeHTTP ==
    /\ ~result.done
    /\ result' = [handler(result, call) EXCEPT !.done = TRUE]
    /\ UNCHANGED <<host, call>>

HTTPSpec == HTTPInit /\ [][ServeHTTP]_vars

(* C12: with requireAuth the routes are invoked if and only if the request  *)
(* carries a parseable Basic Authorization header; every other request gets *)
(* 401 with WWW-Authenticate: Basic and the routes are not invoked.         *)
(* Without requireAuth the routes are always invoked and no 401 and no      *)
(* challenge comes from the gate.                                           *)
C12_AuthenticationGate ==
    result.done =>
        IF call.requireAuth
        THEN /\ result.routed <=> call.auth = "basic"
             /\ ~result.routed =>
                   /\ result.status = 401
                   /\ result.challenge = "Basic"
                   /\ ~result.dispatched
        ELSE /\ result.routed
             /\ result.status # 401
             /\ result.challenge = ""

\* The gate turned a request with a malformed Basic header away.
C12_Witness ==
    /\ result.done
    /\ call.requireAuth
    /\ call.auth = "basicMalformed"
    /\ result.status = 401
    /\ ~result.routed

(* C13: a request that matches none of the base, manifest and blob routes   *)
(* is answered with an error envelope of code UNSUPPORTED, not a success.   *)
C13_UnsupportedEnvelope ==
    (result.done /\ result.routed /\ call.route \notin {"base", "manifest", "blob"}) =>
        /\ result.code = "UNSUPPORTED"
        /\ result.status >= 400

(* C15: for a manifest or blob request whose name reference.WithName       *)
(* rejects, the dispatcher writes an error envelope for the invalid name,   *)
(* returns normally and does not invoke the dispatch function.              *)
C15_InvalidNameEnvelope ==
    (/\ result.done
     /\ result.routed
     /\ call.route \in {"manifest", "blob"}
     /\ ~ValidName(call.name)) =>
        /\ result.code = "NAME_INVALID"
        /\ result.status >= 400
        /\ ~result.panic
        /\ ~result.dispatched


---------------------------------------------------------------------------
(* NewRegistry, lines 85-205, and the files Serve opens, lines 234-275.    *)
(* A path is a sequence of elements.  The configuration names the store,   *)
(* the static layers, the files of remoteSpecProvider.tls and of tls and   *)
(* the handover directory; tproot is TELEPRESENCE_ROOT.  What the          *)
(* constructors NewRegistry calls do is an argument: fail names the one    *)
(* that fails, ok whether a static layer can be sourced.                   *)

MaxLayers == 2

RefNames == <<"layer1", "layer2", "layer3", "layer4">>

\* Static layer lists of n entries; the refs differ.
StaticLayers(n) ==
    {[i \in 1..n |-> [ref |-> <<RefNames[i]>>, type |-> f[i].type, ok |-> f[i].ok]] :
        f \in [1..n -> [type : {"file", "image", "tar"}, ok : BOOLEAN]]}

NewCalls ==
    {c \in [fn : {"NewRegistry"},
            tproot : {"", "/telepresence"},
            staticLayer : UNION {StaticLayers(n) : n \in 0..MaxLayers},
            fail : {"none", "store", "metrics", "ide", "content", "cache"},
            rsp : {"nil", "plaintext", "tls"},
            caReadable : BOOLEAN, caPEM : BOOLEAN, pairOk : BOOLEAN] :
        c.rsp # "tls" => c.caReadable /\ c.caPEM /\ c.pairOk}

\* The paths of the configuration.
StorePath == <<"store">>
CAPath == <<"ca.pem">>
CrtPath == <<"crt.pem">>
KeyPath == <<"key.pem">>
TLSCrtPath == <<"tls.crt">>
TLSKeyPath == <<"tls.key">>
SocketsPath == <<"handover">>

\* filepath.Join(root, path) behind the test root != "".
Prefixed(root, path) == IF root # "" THEN <<root>> \o path ELSE path

\* A NewRegistry that collects its sources in front.
PrependLayer(sources, src) == <<src>> \o sources

\* append of lines 113, 123, 129 and 138.
AppendLayer(sources, src) == Append(sources, src)

\* Lines 116-133: the loop over the static layers, up to its first error.
RECURSIVE SourceLayers(_, _)
SourceLayers(sl, sources) ==
    IF sl = <<>> THEN [err |-> "", sources |-> sources]
    ELSE LET e == Head(sl)
         IN  IF e.type \notin {"file", "image"}
             THEN [err |-> "unknown static layer type", sources |-> sources]
             ELSE IF ~e.ok
             THEN [err |-> "cannot source layer", sources |-> sources]
             ELSE SourceLayers(Tail(sl),
                      AppendLayer(sources, [kind |-> e.type, path |-> e.ref]))

\* A NewRegistry that takes any readable CA file.
PEMIgnored(c) == c.caReadable

\* Line 164.
PEMAppended(c) == c.caPEM

\* Lines 141-186: the dial options for the transport and the files read.
TransportOpts(c) ==
    IF c.rsp = "nil" THEN [err |-> "", opts |-> <<>>, files |-> <<>>]
    ELSE IF c.rsp = "plaintext"
    THEN [err |-> "", opts |-> <<"WithInsecure">>, files |-> <<>>]
    ELSE LET ca  == Prefixed(c.tproot, CAPath)
             crt == Prefixed(c.tproot, CrtPath)
             key == Prefixed(c.tproot, KeyPath)
         IN  IF ~c.caReadable
             THEN [err |-> "could not read ca certificate", opts |-> <<>>,
                   files |-> <<ca>>]
             ELSE IF ~PEMAppended(c)
             THEN [err |-> "failed to append ca certs", opts |-> <<>>,
                   files |-> <<ca>>]
             ELSE IF ~c.pairOk
             THEN [err |-> "cannot load ws-manager certs", opts |-> <<>>,
                   files |-> <<ca, crt, key>>]
             ELSE [err |-> "", opts |-> <<"WithTransportCredentials">>,
                   files |-> <<ca, crt, key>>]

\* What NewRegistry returned and which paths were opened.
NoRegistry ==
    [done |-> FALSE, reg |-> FALSE, err |-> "", layerSources |-> <<>>,
     opts |-> <<>>, store |-> <<>>, rspFiles |-> <<>>,
     served |-> FALSE, tlsFiles |-> <<>>, sockets |-> <<>>]

Failed(r, err) == [r EXCEPT !.done = TRUE, !.err = err]

\* Lines 85-205.
NewRegistry(c) ==
    LET r0  == [NoRegistry EXCEPT !.store = Prefixed(c.tproot, StorePath)]
        ide == AppendLayer(<<>>, [kind |-> "ide", path |-> <<>>])
        sl  == SourceLayers(c.staticLayer, ide)
        t   == TransportOpts(c)
        r1  == [r0 EXCEPT !.rspFiles = t.files]
    IN  IF c.fail \in {"store", "metrics", "ide"} THEN Failed(r0, c.fail)
        ELSE IF sl.err # "" THEN Failed(r0, sl.err)
        ELSE IF c.fail = "content" THEN Failed(r0, c.fail)
        ELSE IF t.err # "" THEN Failed(r1, t.err)
        ELSE IF c.rsp # "nil" /\ c.fail = "cache" THEN Failed(r1, c.fail)
        ELSE [r1 EXCEPT !.done = TRUE, !.reg = TRUE, !.opts = t.opts,
                        !.layerSources =
                            AppendLayer(sl.sources, [kind |-> "content", path |-> <<>>])]

NewInit ==
    /\ Unstarted
    /\ NoSupervisor
    /\ dirs = [d \in Locs |-> {}]
    /\ now = 0
    /\ call \in NewCalls
    /\ result = NoRegistry

NewRegistryCall ==
    /\ ~result.done
    /\ result' = NewRegistry(call)
    /\ UNCHANGED <<host, call>>

\* Serve of the registry made, with Config.TLS set and the handover
\* enabled: the directory read (line 236, then line 310) and offered in
\* (lines 259 and 339), the key pair of lines 267-274.
ServeFiles ==
    /\ result.reg
    /\ ~result.served
    /\ result' = [result EXCEPT
                     !.served = TRUE,
                     !.sockets = SocketsPath,
                     !.tlsFiles = <<Prefixed(call.tproot, TLSCrtPath),
                                    Prefixed(call.tproot, TLSKeyPath)>>]
    /\ UNCHANGED <<host, call>>

NewNext == NewRegistryCall \/ ServeFiles

NewSpec == NewInit /\ [][NewNext]_vars

\* The source a static layer entry gives.
LayerSourceOf(e) == [kind |-> e.type, path |-> e.ref]

(* C16: the composite layer source NewRegistry builds holds the IDE source *)
(* first, then one source per staticLayer entry in the configured order,    *)
(* then the content-layer source; its length is 2 + len(staticLayer).       *)
C16_CompositeOrder ==
    (result.done /\ result.reg) =>
        LET sl == call.staticLayer
            ls == result.layerSources
        IN  /\ Len(ls) = 2 + Len(sl)
            /\ ls[1].kind = "ide"
            /\ \A k \in 1..Len(sl) : ls[k + 1] = LayerSourceOf(sl[k])
            /\ ls[Len(ls)].kind = "content"

\* A registry with an image layer before a file layer.
C16_Witness ==
    /\ result.done
    /\ result.reg
    /\ Len(call.staticLayer) = 2
    /\ call.staticLayer[1].type = "image"
    /\ call.staticLayer[2].type = "file"
    /\ result.layerSources[2].kind = "image"
    /\ result.layerSources[3].kind = "file"

(* C17: NewRegistry returns an error and no Registry when a staticLayer     *)
(* entry has a type other than file or image, when a static layer cannot be *)
(* sourced, or when remoteSpecProvider.tls is set and the CA file is        *)
(* unreadable, holds no PEM certificate, or the key pair does not load.     *)
(* With remoteSpecProvider set the one transport option applied is the      *)
(* plaintext one without tls and the TLS one with it.                       *)
C17_ConfigErrorsFatal ==
    result.done =>
        LET sl == call.staticLayer
        IN  /\ result.reg <=> result.err = ""
            /\ (\E k \in 1..Len(sl) : sl[k].type \notin {"file", "image"}) => ~result.reg
            /\ (\E k \in 1..Len(sl) : ~sl[k].ok) => ~result.reg
            /\ (call.rsp = "tls" /\ ~(call.caReadable /\ call.caPEM /\ call.pairOk))
                  => ~result.reg
            /\ (result.reg /\ call.rsp = "plaintext") => result.opts = <<"WithInsecure">>
            /\ (result.reg /\ call.rsp = "tls")
                  => result.opts = <<"WithTransportCredentials">>
            /\ Len(result.opts) <= 1

\* A CA file without a certificate stopped NewRegistry.
C17_Witness ==
    /\ result.done
    /\ call.rsp = "tls"
    /\ call.caReadable
    /\ ~call.caPEM
    /\ ~result.reg
    /\ result.err = "failed to append ca certs"

\* The paths of file type among the static layer sources.
FileLayerPaths(ls) == {ls[k].path : k \in {j \in 1..Len(ls) : ls[j].kind = "file"}}

(* C18: with the root prefix set every file path of the configuration is    *)
(* used with the prefix in front: the store, the file static layers, the    *)
(* files of remoteSpecProvider.tls and of tls, the handover directory;      *)
(* without it every path is used as configured.                             *)
C18_RootPrefixEverywhere ==
    (result.done /\ result.served) =>
        LET root == call.tproot
        IN  /\ result.store = Prefixed(root, StorePath)
            /\ \A path \in FileLayerPaths(result.layerSources) :
                   \E k \in 1..Len(call.staticLayer) :
                       path = Prefixed(root, call.staticLayer[k].ref)
            /\ call.rsp = "tls" =>
                   result.rspFiles = <<Prefixed(root, CAPath), Prefixed(root, CrtPath),
                                       Prefixed(root, KeyPath)>>
            /\ result.tlsFiles = <<Prefixed(root, TLSCrtPath), Prefixed(root, TLSKeyPath)>>
            /\ result.sockets = Prefixed(root, SocketsPath)


---------------------------------------------------------------------------
(* The entry of the supervisor                                             *)
(* (components/supervisor/pkg/supervisor/supervisor.go): Run, lines        *)
(* 97-114, with the option WithArgs, lines 69-73.                          *)

MaxArgs == 3

ArgWords == {"supervisor", "run", "help"}

\* os.Args: the program name and up to MaxArgs - 1 arguments.
OSArgs == UNION {[1..n -> ArgWords] : n \in 1..MaxArgs}

\* The options of a call: WithArgs with any arguments, or no option.
RunOptions ==
    {[withArgs |-> FALSE, args |-> <<>>]} \cup
    [withArgs : {TRUE}, args : UNION {[1..n -> ArgWords] : n \in 0..MaxArgs}]

RunCalls == [fn : {"Run"}, osArgs : OSArgs, options : RunOptions, configOk : BOOLEAN]

\* Lines 100-105: the default and the options applied to it.
RunOpts(c) == [Args |-> IF c.options.withArgs THEN c.options.args ELSE c.osArgs]

\* Line 111 tests os.Args.
WantsRun(c, opts) == ~(Len(c.osArgs) < 2 \/ c.osArgs[2] # "run")

\* Lines 97-114: a configuration error is fatal, the usage text ends Run.
Run(c) ==
    LET opts == RunOpts(c)
    IN  [done |-> TRUE, opts |-> opts, workers |-> FALSE,
         outcome |-> IF ~c.configOk THEN "fatal"
                     ELSE IF ~WantsRun(c, opts) THEN "usage"
                     ELSE "run"]

RunInit ==
    /\ Unstarted
    /\ NoSupervisor
    /\ dirs = [d \in Locs |-> {}]
    /\ now = 0
    /\ call \in RunCalls
    /\ result = [done |-> FALSE, opts |-> [Args |-> <<>>], workers |-> FALSE,
                 outcome |-> None]

RunCall ==
    /\ ~result.done
    /\ result' = Run(call)
    /\ UNCHANGED <<host, call>>

\* Lines 116-195: the services are made and the goroutines started.
StartWorkers ==
    /\ result.outcome = "run"
    /\ ~result.workers
    /\ result' = [result EXCEPT !.workers = TRUE]
    /\ UNCHANGED <<host, call>>

RunNext == RunCall \/ StartWorkers

RunSpec == RunInit /\ [][RunNext]_vars

(* C19: the arguments given through WithArgs (os.Args without the option)   *)
(* are those Run inspects: with "run" as their second it runs the           *)
(* supervisor, otherwise it prints the usage text and returns without       *)
(* starting a worker.                                                       *)
C19_WithArgsControlsRun ==
    (result.done /\ call.configOk) =>
        LET args == IF call.options.withArgs THEN call.options.args ELSE call.osArgs
        IN  IF Len(args) >= 2 /\ args[2] = "run"
            THEN result.outcome = "run"
            ELSE result.outcome = "usage" /\ ~result.workers


---------------------------------------------------------------------------
(* registry.ReceiveHandover, lines 306-330, called with any directory:     *)
(* the entries of the directory are drawn at the start, no donor listens.  *)

\* What a handover directory can hold: entries of every other type and the
\* sockets two donors left behind.
DirEntries ==
    ForeignEntries \cup {SocketEntry(SocketName(t)) : t \in {MaxTime - 1, MaxTime}}

ReceiveCalls ==
    [fn : {"ReceiveHandover"}, loc : Locs, readOk : BOOLEAN, connOk : BOOLEAN]

\* A ReceiveHandover that connects whatever its loop found.
ConnectsAlways(r) == 1

\* The calls of handover.ReceiveHandover: line 329 is reached with a name.
Connects(r) == IF r.fn = <<>> THEN 0 ELSE 1

ReceiveInit ==
    /\ Unstarted
    /\ NoSupervisor
    /\ dirs \in [Locs -> SUBSET DirEntries]
    /\ dirs[""] = {}
    /\ now = MaxTime
    /\ call \in ReceiveCalls
    /\ result = [done |-> FALSE, res |-> None, l |-> None, connects |-> 0]

ReceiveCall ==
    /\ ~result.done
    /\ LET r == ReceiveHandover("p1", call.loc, call.readOk, call.connOk)
       IN  result' = [done |-> TRUE, res |-> r.res, l |-> r.donor,
                      connects |-> Connects(r)]
    /\ UNCHANGED <<host, call>>

ReceiveSpec == ReceiveInit /\ [][ReceiveCall]_vars

(* C20: ReceiveHandover returns (nil, nil) and connects to nothing when    *)
(* loc is empty or the directory holds no socket entry; it returns a nil    *)
(* listener and the error when the directory cannot be read; it calls       *)
(* handover.ReceiveHandover at most once.                                   *)
C20_NoCandidateNoConnect ==
    result.done =>
        /\ (call.loc = "" \/ (call.readOk /\ SocketNames(dirs[call.loc]) = {})) =>
               /\ result.res = "nil"
               /\ result.l = None
               /\ result.connects = 0
        /\ (call.loc # "" /\ ~call.readOk) =>
               /\ result.res = "err"
               /\ result.l = None
               /\ result.connects = 0
        /\ result.connects <= 1

\* A readable directory with entries but without a socket gave (nil, nil).
C20_Witness ==
    /\ result.done
    /\ call.loc # ""
    /\ call.readOk
    /\ dirs[call.loc] # {}
    /\ SocketNames(dirs[call.loc]) = {}
    /\ result.res = "nil"
    /\ result.connects = 0


---------------------------------------------------------------------------
(* The supervisor from the start of its goroutines to the end of Run       *)
(* (supervisor.go, lines 172-232): Run itself, the reaper (lines 321-364), *)
(* startAndWatchIDE (lines 366-459) with the goroutine that launches the   *)
(* IDE and the readiness probes, and the workers of the wait group.  call  *)
(* holds the configuration, sup the state of the process.  The IDE         *)
(* processes are numbered by launch; cmd = 0 is the nil *exec.Cmd.         *)

MaxLaunches == 2

\* Everything but the supervisor.
registry == <<cfg, pc, l, lopen, ret, recvRes, bindRes, fs, fn, srv, srvErrChan,
              hoc, gor, socketFN, offerRes, dirs, now, peer, call, result>>

\* The goroutines given &wg (lines 188-195); portMgmt only when not headless.
WorkerOrder == <<"startContentInit", "startAPIEndpoint", "taskManager.Run", "portMgmt.Run">>

Workers == {WorkerOrder[i] : i \in 1..Len(WorkerOrder)}

Started(c) == IF c.headless THEN Workers \ {"portMgmt.Run"} ELSE Workers

\* wg.Add(4) of line 187 and wg.Add(1) of line 193.
WaitGroupAdds(c) == IF c.headless THEN 4 ELSE 4 + 1

SupConfigs ==
    [fn : {"Run"}, headless : BOOLEAN, inNamespace : BOOLEAN,
     probe : {"process", "http"}]

\* Lines 172-209: the goroutines are started, Run stands before its select.
\* child: a child process in the supervisor's own process group is alive.
SupInit ==
    /\ Unstarted
    /\ dirs = [d \in Locs |-> {}]
    /\ now = 0
    /\ call \in SupConfigs
    /\ result = [done |-> FALSE]
    /\ \E child \in BOOLEAN :
         sup = [alive |-> TRUE, crash |-> None,
                run |-> "select", steps |-> <<>>, trigger |-> None,
                ctx |-> "live",
                reaper |-> "select", terminating |-> FALSE, sigchld |-> FALSE,
                child |-> child,
                loop |-> "start", s |-> "statusNeverRan", gen |-> 0,
                launch |-> None, cmd |-> 0, started |-> {}, running |-> {},
                exitErr |-> None, ideStopped |-> "nil", announced |-> {},
                probes |-> {}, ideReady |-> FALSE, readyBy |-> 0,
                lateGo |-> FALSE, lateLaunch |-> FALSE, signals |-> <<>>,
                ideWG |-> 1, wg |-> WaitGroupAdds(call),
                done |-> {}]

\* log.Fatal, or a panic no one recovers: the process is gone.
Crashed(kind) == [sup EXCEPT !.alive = FALSE, !.crash = kind]

---------------------------------------------------------------------------
(* Run, lines 208-232. *)

\* SIGINT or SIGTERM arrives, or the goroutine of lines 198-205 closes
\* the shutdown channel.
Trigger ==
    /\ sup.alive
    /\ sup.trigger = None
    /\ sup' = [sup EXCEPT !.trigger = "shutdown"]
    /\ UNCHANGED registry

\* Lines 210-215.
RunObserve ==
    /\ sup.alive
    /\ sup.run = "select"
    /\ sup.trigger # None
    /\ sup' = [sup EXCEPT !.run = "sendReaper"]
    /\ UNCHANGED registry

\* Line 216 meets line 330: the unbuffered send needs the reaper in its
\* select.
ReaperReceive ==
    /\ sup.alive
    /\ sup.run = "sendReaper"
    /\ sup.reaper = "select"
    /\ sup' = [sup EXCEPT !.terminating = TRUE, !.run = "cancel",
                          !.steps = Append(@, "reaper")]
    /\ UNCHANGED registry

\* Line 217.
RunCancel ==
    /\ sup.alive
    /\ sup.run = "cancel"
    /\ sup' = [sup EXCEPT !.ctx = "cancelled", !.run = "closeMux",
                          !.steps = Append(@, "cancel")]
    /\ UNCHANGED registry

\* Lines 218-221.
RunCloseMux ==
    /\ sup.alive
    /\ sup.run = "closeMux"
    /\ sup' = [sup EXCEPT !.run = "ideWait", !.steps = Append(@, "termMux")]
    /\ UNCHANGED registry

\* A Run that does not wait for the IDE loop.
NotAwaited(wg) == wg >= 0

\* ideWG.Wait() of line 224 returns.
Awaited(wg) == wg = 0

RunIdeWait ==
    /\ sup.alive
    /\ sup.run = "ideWait"
    /\ Awaited(sup.ideWG)
    /\ sup' = [sup EXCEPT !.run = "terminate", !.steps = Append(@, "ideWait")]
    /\ UNCHANGED registry

\* Line 225: every child is killed; a wait4 of the reaper returns.
RunTerminate ==
    /\ sup.alive
    /\ sup.run = "terminate"
    /\ sup' = [sup EXCEPT !.run = "teardown", !.steps = Append(@, "terminate"),
                          !.child = FALSE,
                          !.running = {},
                          !.exitErr = IF sup.running # {} THEN "other" ELSE @,
                          !.sigchld = @ \/ sup.child \/ sup.running # {},
                          !.reaper = "select"]
    /\ UNCHANGED registry

\* Lines 227-231: callDaemonTeardown (lines 770-786, it ends within its
\* timeout) unless in the namespace, then wg.Wait().
RunTeardown ==
    /\ sup.alive
    /\ sup.run = "teardown"
    /\ sup' = [sup EXCEPT
                  !.steps = IF call.inNamespace THEN Append(@, "wgWait")
                            ELSE @ \o <<"daemonTeardown", "wgWait">>,
                  !.run = IF Awaited(sup.wg) THEN "returned" ELSE "wgWait"]
    /\ UNCHANGED registry

\* The workers that end before w does: the workers do not depend on one
\* another, so they are taken to end in the order of their start.
Before(w) == {WorkerOrder[i] : i \in {j \in 1..Len(WorkerOrder) :
                                        \E k \in (j + 1)..Len(WorkerOrder) : WorkerOrder[k] = w}}

\* A worker ends and calls wg.Done: startAPIEndpoint once the context is
\* cancelled (line 618), startContentInit when the content is there.  The
\* Done that brings the counter to zero lets wg.Wait() of line 231 return.
WorkerDone(w) ==
    /\ sup.alive
    /\ w \in Started(call) \ sup.done
    /\ Before(w) \cap Started(call) \subseteq sup.done
    /\ sup.ctx = "cancelled" \/ w = "startContentInit"
    /\ sup' = [sup EXCEPT
                  !.done = @ \cup {w},
                  !.wg = @ - 1,
                  !.run = IF @ = "wgWait" /\ Awaited(sup.wg - 1) THEN "returned" ELSE @]
    /\ UNCHANGED registry

---------------------------------------------------------------------------
(* The reaper, lines 321-364. *)

\* Lines 329 and 335: a SIGCHLD is taken and wait4(0, nil, 0, nil) called.
\* With options 0 it blocks while a child of the process group lives and
\* none of them has ended.
ReaperSigchld ==
    /\ sup.alive
    /\ sup.reaper = "select"
    /\ sup.sigchld
    /\ sup' = [sup EXCEPT !.sigchld = FALSE,
                          !.reaper = IF sup.child THEN "wait4" ELSE "select"]
    /\ UNCHANGED registry

\* The child of the process group ends by itself.
ChildExits ==
    /\ sup.alive
    /\ sup.child
    /\ sup' = [sup EXCEPT !.child = FALSE, !.sigchld = TRUE, !.reaper = "select"]
    /\ UNCHANGED registry

---------------------------------------------------------------------------
(* startAndWatchIDE, lines 366-459. *)

\* Lines 367-381.
IdeEnter ==
    /\ sup.alive
    /\ sup.loop = "start"
    /\ sup' = IF call.headless
              THEN [sup EXCEPT !.ideReady = TRUE, !.loop = "returned", !.ideWG = 0]
              ELSE [sup EXCEPT !.loop = "top"]
    /\ UNCHANGED registry

\* Lines 388-394 and 434: a new channel and a new launch goroutine.
IdeLaunch ==
    /\ sup.alive
    /\ sup.loop = "top"
    /\ sup.gen < MaxLaunches
    /\ sup' = IF sup.s = "statusShouldShutdown"
              THEN [sup EXCEPT !.loop = "final"]
              ELSE [sup EXCEPT !.gen = @ + 1, !.ideStopped = "open",
                               !.launch = "prepare", !.loop = "select",
                               !.lateGo = sup.ctx = "cancelled"]
    /\ UNCHANGED registry

\* Lines 437-442.
IdeSelectStopped ==
    /\ sup.alive
    /\ sup.loop = "select"
    /\ sup.ideStopped = "closed"
    /\ sup' = [sup EXCEPT !.loop = IF sup.s = "statusShouldShutdown"
                                   THEN "final" ELSE "sleep"]
    /\ UNCHANGED registry

\* Line 442.
IdeSleepEnds ==
    /\ sup.alive
    /\ sup.loop = "sleep"
    /\ sup' = [sup EXCEPT !.loop = "top"]
    /\ UNCHANGED registry

\* cmd.Process.Signal: a nil cmd or a nil cmd.Process is dereferenced.
CanSignal == sup.cmd # 0 /\ sup.cmd \in sup.started

Signalled(sig) ==
    Append(sup.signals, [sig |-> sig, to |-> sup.cmd,
                         running |-> sup.cmd \in sup.running])

\* Lines 443-447.
IdeSelectCancelled ==
    /\ sup.alive
    /\ sup.loop = "select"
    /\ sup.ctx = "cancelled"
    /\ sup' = IF ~CanSignal THEN Crashed("panic")
              ELSE [sup EXCEPT !.s = "statusShouldShutdown", !.loop = "final",
                               !.signals = Signalled("interrupt")]
    /\ UNCHANGED registry

\* Lines 453-454.
IdeFinalStopped ==
    /\ sup.alive
    /\ sup.loop = "final"
    /\ sup.ideStopped = "closed"
    /\ sup' = [sup EXCEPT !.loop = "returned", !.ideWG = 0]
    /\ UNCHANGED registry

\* Lines 455-458: the budget elapses before the stop is announced; SIGKILL
\* ends the process it reaches.  The budget (timeBudgetIDEShutdown, 5 s) is
\* long against the steps of the launch goroutine: the timer fires only
\* when that goroutine waits for a running IDE or has returned at line 412.
IdeFinalTimeout ==
    /\ sup.alive
    /\ sup.loop = "final"
    /\ sup.ideStopped # "closed"
    /\ sup.launch = "failed" \/ (sup.launch = "wait" /\ sup.gen \in sup.running)
    /\ sup' = IF ~CanSignal THEN Crashed("panic")
              ELSE [sup EXCEPT !.loop = "returned", !.ideWG = 0,
                               !.signals = Signalled("kill"),
                               !.running = @ \ {sup.cmd},
                               !.exitErr = IF sup.cmd \in sup.running THEN "other" ELSE @,
                               !.sigchld = @ \/ sup.cmd \in sup.running]
    /\ UNCHANGED registry

---------------------------------------------------------------------------
(* The launch goroutine, lines 394-434, and the probe, lines 416-419. *)

\* Line 395.
LaunchPrepare ==
    /\ sup.alive
    /\ sup.launch = "prepare"
    /\ sup' = [sup EXCEPT !.cmd = sup.gen, !.launch = "start"]
    /\ UNCHANGED registry

\* Lines 406-419: cmd.Start; on success the probe goroutine is started.
LaunchStart ==
    /\ sup.alive
    /\ sup.launch = "start"
    /\ \E ok \in BOOLEAN :
         sup' = IF ok
                THEN [sup EXCEPT !.started = @ \cup {sup.gen},
                                 !.running = @ \cup {sup.gen},
                                 !.s = "statusShouldRun",
                                 !.probes = @ \cup {sup.gen},
                                 !.lateLaunch = @ \/ sup.lateGo,
                                 !.launch = "wait"]
                ELSE IF sup.s = "statusNeverRan" THEN Crashed("fatal")
                ELSE [sup EXCEPT !.launch = "failed"]
    /\ UNCHANGED registry

\* The IDE process ends: by itself, or on a signal.
IDEStops ==
    /\ sup.alive
    /\ \E k \in sup.running, err \in {"nil", "interrupt", "other"} :
         sup' = [sup EXCEPT !.running = @ \ {k}, !.exitErr = err, !.sigchld = TRUE]
    /\ UNCHANGED registry

\* An exit that is fatal whatever ideReady holds.
FatalWhenFailed == sup.exitErr = "other"

\* Lines 422-427: the error of cmd.Wait is neither nil, nor an interrupt,
\* nor "no child processes", and ideReady.Get() gives false.
FatalExit == sup.exitErr = "other" /\ ~sup.ideReady

\* Lines 421-433: cmd.Wait returns.
LaunchWaitReturns ==
    /\ sup.alive
    /\ sup.launch = "wait"
    /\ sup.gen \notin sup.running
    /\ sup' = IF FatalExit THEN Crashed("fatal")
              ELSE [sup EXCEPT !.ideReady = FALSE, !.ideStopped = "closed",
                               !.announced = @ \cup {sup.gen}, !.launch = "done"]
    /\ UNCHANGED registry

\* Lines 417-418 with lines 524-551: the process probe returns at once, the
\* HTTP probe when whatever listens on the IDE port answers 200.
ProbeReturns(k) ==
    /\ sup.alive
    /\ k \in sup.probes
    /\ call.probe = "process" \/ sup.running # {}
    /\ sup' = [sup EXCEPT !.probes = @ \ {k}, !.ideReady = TRUE, !.readyBy = k]
    /\ UNCHANGED registry

---------------------------------------------------------------------------

\* The goroutine of Run; its send is the reaper's receive.
RunStep ==
    \/ RunObserve
    \/ ReaperReceive
    \/ RunCancel
    \/ RunCloseMux
    \/ RunIdeWait
    \/ RunTerminate
    \/ RunTeardown

\* The goroutine of startAndWatchIDE.
IdeStep ==
    \/ IdeEnter
    \/ IdeLaunch
    \/ IdeSelectStopped
    \/ IdeSleepEnds
    \/ IdeSelectCancelled
    \/ IdeFinalStopped
    \/ IdeFinalTimeout

\* The goroutine that launches the IDE.
LaunchStep == LaunchPrepare \/ LaunchStart \/ LaunchWaitReturns

\* What the supervisor does by itself once it can.
SupStep ==
    \/ RunStep
    \/ ReaperSigchld
    \/ IdeStep
    \/ LaunchStep
    \/ \E k \in 1..MaxLaunches : ProbeReturns(k)
    \/ \E w \in Workers : WorkerDone(w)

\* What happens to it.
SupEnvironment == Trigger \/ ChildExits \/ IDEStops

SupNext == SupStep \/ SupEnvironment

SupSpec == SupInit /\ [][SupNext]_vars

\* The Go scheduler runs every goroutine that can run, and timers fire.
FairSupSpec ==
    /\ SupSpec
    /\ WF_vars(RunStep)
    /\ WF_vars(ReaperSigchld)
    /\ WF_vars(IdeStep)
    /\ WF_vars(LaunchStep)
    /\ \A k \in 1..MaxLaunches : WF_vars(ProbeReturns(k))
    /\ \A w \in Workers : WF_vars(WorkerDone(w))

---------------------------------------------------------------------------
(* Properties of the supervisor. *)

\* The steps of the teardown in the order of lines 216-231.
Teardown(c) ==
    <<"reaper", "cancel", "termMux", "ideWait", "terminate">> \o
    (IF c.inNamespace THEN <<>> ELSE <<"daemonTeardown">>) \o <<"wgWait">>

(* C24: after a shutdown trigger Run performs, in this order and each at    *)
(* most once: the reaper is switched to terminating, the context cancelled, *)
(* the terminal mux closed, the IDE loop awaited, the children terminated,  *)
(* the daemon asked to tear down (skipped exactly with InNamespace), the    *)
(* workers awaited; no child is terminated before the IDE loop has ended.   *)
C24_TeardownOrder ==
    sup.alive =>
        /\ Len(sup.steps) <= Len(Teardown(call))
        /\ sup.steps = SubSeq(Teardown(call), 1, Len(sup.steps))
        /\ sup.steps # <<>> => sup.trigger # None
        /\ (\E i \in 1..Len(sup.steps) : sup.steps[i] = "terminate")
              => sup.loop = "returned"

\* Run went through the whole teardown, the daemon's included, and waits
\* for the workers.
C24_Witness ==
    /\ sup.alive
    /\ ~call.inNamespace
    /\ ~call.headless
    /\ sup.steps = <<"reaper", "cancel", "termMux", "ideWait", "terminate",
                     "daemonTeardown", "wgWait">>

(* C25: after the trigger Run returns: wg.Wait() unblocks because every     *)
(* unit added to the wait group is matched by the Done of a started worker. *)
C25_WaitGroupMatched ==
    (sup.alive /\ sup.done = Started(call)) => (sup.wg = 0 /\ sup.run # "wgWait")

(* C26: once Run has observed the trigger the context is eventually         *)
(* cancelled: the send to the reaper is eventually received, the reaper     *)
(* does not stay in wait4 for ever while Run waits to send.                 *)
C26_ReaperReceives ==
    (sup.alive /\ sup.run = "sendReaper") ~> (~sup.alive \/ sup.ctx = "cancelled")

(* C27: not headless and the context not cancelled: whenever the IDE has    *)
(* stopped or a relaunch failed to start, the IDE is eventually launched    *)
(* again; the loop never waits for ever without a running IDE and without   *)
(* a relaunch to come.                                                      *)
C27_IDERestarted ==
    (sup.alive /\ sup.gen >= 1 /\ sup.gen < MaxLaunches /\ sup.running = {}
        /\ sup.ctx = "live")
    ~> (~sup.alive \/ sup.running # {} \/ sup.ctx = "cancelled")

(* C28: after the context is cancelled startAndWatchIDE returns: it sends   *)
(* the interrupt, launches no further IDE process, and sends SIGKILL only   *)
(* to an IDE that has not stopped when the budget elapses.                  *)
C28_IDEShutdownWithBudget ==
    /\ sup.crash # "panic"
    /\ ~sup.lateLaunch
    /\ \A i \in 1..Len(sup.signals) :
          sup.signals[i].sig = "kill" => sup.signals[i].running

(* C29: whenever startAndWatchIDE executes cmd.Process.Signal, cmd and      *)
(* cmd.Process are not nil, also when the context is cancelled before the   *)
(* IDE was started or when cmd.Start failed.                                *)
C29_SignalsOnlyStartedIDE ==
    (sup.alive /\ sup.loop \in {"select", "final"}
        /\ (sup.loop = "select" => sup.ctx = "cancelled")
        /\ (sup.loop = "final" => sup.ideStopped # "closed"))
        => CanSignal

(* C30: not headless, ideReady is true only while an IDE process runs, and  *)
(* the probe started for a process whose stop was announced never sets      *)
(* ideReady again; headless, ideReady is set once and no IDE is launched.   *)
C30_ReadinessTracksIDE ==
    IF call.headless
    THEN sup.gen = 0 /\ (sup.ideReady <=> sup.loop = "returned")
    ELSE sup.ideReady => sup.readyBy \notin sup.announced

(* C31: a failed cmd.Start is fatal only while no IDE launch has succeeded  *)
(* (status never-ran); an IDE exit is fatal only with an error other than   *)
(* interrupt / no child processes and ideReady false at that moment; every  *)
(* other return of cmd.Wait (the IDE was ready, or it ended without error)  *)
(* leaves the supervisor alive, sets ideReady to false and announces the    *)
(* stop to the loop.                                                        *)
C31_FatalOnlyWhen ==
    [][/\ (sup.alive /\ sup'.crash = "fatal") =>
             \/ /\ sup.launch = "start"
                /\ sup.s = "statusNeverRan"
                /\ sup.started = {}
             \/ /\ sup.launch = "wait"
                /\ sup.exitErr = "other"
                /\ ~sup.ideReady
       /\ (/\ sup.alive
           /\ sup.launch = "wait"
           /\ sup'.launch # "wait" \/ ~sup'.alive
           /\ sup.exitErr # "other" \/ sup.ideReady) =>
             /\ sup'.alive
             /\ ~sup'.ideReady
             /\ sup'.ideStopped = "closed"
             /\ sup.gen \in sup'.announced]_vars

\* An IDE that was ready exited with an error of its own and no signal sent:
\* the supervisor lives, ideReady is false and the stop is announced.
C31_Witness ==
    /\ sup.alive
    /\ sup.signals = <<>>
    /\ sup.exitErr = "other"
    /\ sup.launch = "done"
    /\ sup.readyBy = sup.gen
    /\ sup.gen \in sup.announced
    /\ ~sup.ideReady

=============================================================================
